---- MODULE Spec2Model ----
(***************************************************************************)
(* Model of the CodeBattles backend: the single in-memory room             *)
(* (game_state.py) and the Socket.IO event handlers (events.py).           *)
(*                                                                         *)
(* Handlers run to completion on one gevent loop; the only suspension      *)
(* point is the grading subprocess inside handle_submit_solution, so that  *)
(* handler is split in two actions (SubmitSolution / SubmitResume) and     *)
(* every other handler is one atomic action.                               *)
(*                                                                         *)
(* Python values are encoded as follows: None is 0 for player and card     *)
(* ids, NoTime (-1) for a timer deadline, NoReward for a reward; times are *)
(* integer milliseconds; strings that the code trims are sequences of      *)
(* one-character strings.                                                  *)
(***************************************************************************)
EXTENDS Integers, Sequences, FiniteSets, Bags, TLC

VARIABLES
    now,               \* time.time() * 1000, the wall clock in milliseconds
    connected,         \* connection ids (request.sid) that are currently open
    nextSid,           \* next fresh connection id
    socket_to_player,  \* game_state.py:23, connection id -> player id (None when absent)
    players,           \* game_state['players']: player id -> player dict
    order,             \* key order of game_state['players'] (insertion order)
    gameStatus,        \* game_state['gameStatus']
    winner,            \* game_state['winner']
    nextPid,           \* next fresh player id (uuid4 of handle_join_room)
    nextCard,          \* next fresh card id (uuid4 of generate_card)
    cardReward,        \* card id -> index of the template random.choice drew for it
    inflight,          \* bag of submit_solution handlers suspended in execute_code
    orphans,           \* player dicts deleted from the room but still held by a suspended handler
    solved,            \* history: card ids for which solution_passed has been emitted
    ev,                \* the last handler that ran: its name, connection, emits, exception
    nevents,           \* number of events handled so far
    exec               \* one call of execute_code followed step by step: its position,
                       \* its run, the state of its child process, its return value

roomVars == <<now, connected, nextSid, socket_to_player, players, order, gameStatus,
              winner, nextPid, nextCard, cardReward, inflight, orphans, solved, ev, nevents>>

vars == <<now, connected, nextSid, socket_to_player, players, order, gameStatus,
          winner, nextPid, nextCard, cardReward, inflight, orphans, solved, ev, nevents,
          exec>>

(***************************************************************************)
(* Bounds of the model.                                                    *)
(***************************************************************************)
MaxSockets == 2
MaxJoins == 3
MaxTicks == 2
MaxCards == 16
MaxInflight == 2
MaxEvents == 8
MaxBonusMs == 60000
MaxCases == 2

(***************************************************************************)
(* Program constants and encodings.                                        *)
(***************************************************************************)
None == 0
NoTime == -1
Broadcast == 0
HandSize == 5
StartSeconds == 300
TickMs == 300000
MaxDeadline == MaxTicks * TickMs + StartSeconds * 1000 + MaxBonusMs

NoReward == [effect |-> "none", value |-> 0]

Max(a, b) == IF a >= b THEN a ELSE b

\* A Python str is modelled as the sequence of its code points (ord of each
\* character).  Whitespace is the set of code points c with chr(c).isspace(),
\* which are the characters str.strip() removes when called without argument.
Whitespace ==
    (9..13) \cup (28..32) \cup {133, 160, 5760} \cup (8192..8202)
        \cup {8232, 8233, 8239, 8287, 12288}

\* str.lstrip(), str.rstrip() and str.strip() without argument
RECURSIVE lstrip(_)
lstrip(s) == IF s # <<>> /\ Head(s) \in Whitespace THEN lstrip(Tail(s)) ELSE s

RECURSIVE rstrip(_)
rstrip(s) ==
    IF s # <<>> /\ s[Len(s)] \in Whitespace THEN rstrip(SubSeq(s, 1, Len(s) - 1)) ELSE s

strip(s) == rstrip(lstrip(s))

\* the names tried: "", " \t", "a", "\x0ba\n"
Usernames == { <<>>, <<32, 9>>, <<97>>, <<11, 97, 10>> }

(***************************************************************************)
(* Outbound events.  to = Broadcast for broadcast=True, otherwise the      *)
(* connection id the event is sent to.                                     *)
(***************************************************************************)
Msg(event, to) ==
    [event |-> event, to |-> to, playerId |-> None, cardId |-> None,
     effect |-> "", value |-> 0, targets |-> <<>>, fromPlayer |-> None,
     message |-> ""]

ErrorMsg(event, to, message) == [Msg(event, to) EXCEPT !.message = message]

Ev(handler, sid, emits, raised) ==
    [handler |-> handler, sid |-> sid, emits |-> emits, raised |-> raised]

\* dict helpers
DictDel(d, k) == [q \in DOMAIN d \ {k} |-> d[q]]

KeysDel(keys, k) == SelectSeq(keys, LAMBDA q : q # k)

Range(s) == { s[i] : i \in 1..Len(s) }

(***************************************************************************)
(* game_state.py                                                           *)
(***************************************************************************)
\* check_win_condition on the room (ps, ord, status, win)
active_players(ps, ord) == SelectSeq(ord, LAMBDA pid : ~ps[pid].isEliminated)

\* variant: the survivor is taken to be the first player of the roster
check_win_condition_first(ps, ord, status, win) ==
    LET active == active_players(ps, ord) IN
    IF Len(active) = 1
    THEN [gameStatus |-> "ended", winner |-> ord[1],
          emits |-> << [Msg("game_ended", Broadcast) EXCEPT !.playerId = ord[1]] >>,
          result |-> TRUE]
    ELSE IF Len(active) = 0 /\ ord # <<>>
    THEN [gameStatus |-> "ended", winner |-> win,
          emits |-> << Msg("game_ended", Broadcast) >>,
          result |-> TRUE]
    ELSE [gameStatus |-> status, winner |-> win, emits |-> <<>>, result |-> FALSE]

check_win_condition(ps, ord, status, win) ==
    LET active == active_players(ps, ord) IN
    IF Len(active) = 1
    THEN [gameStatus |-> "ended", winner |-> active[1],
          emits |-> << [Msg("game_ended", Broadcast) EXCEPT !.playerId = active[1]] >>,
          result |-> TRUE]
    ELSE IF Len(active) = 0 /\ ord # <<>>
    THEN [gameStatus |-> "ended", winner |-> win,
          emits |-> << Msg("game_ended", Broadcast) >>,
          result |-> TRUE]
    ELSE [gameStatus |-> status, winner |-> win, emits |-> <<>>, result |-> FALSE]

\* the reward descriptors of PROBLEM_TEMPLATES, in catalog order (constants.py)
PROBLEM_TEMPLATES ==
    << [effect |-> "add_time", value |-> 30],
       [effect |-> "add_time", value |-> 25],
       [effect |-> "remove_time", value |-> 20],
       [effect |-> "add_time", value |-> 45],
       [effect |-> "remove_time_all", value |-> 30],
       [effect |-> "remove_time_targeted", value |-> 50],
       [effect |-> "add_time", value |-> 60],
       [effect |-> "add_time", value |-> 45],
       [effect |-> "flashbang_targeted", value |-> 1] >>

\* candidates / other_players of apply_reward, in key order
candidates(ps, ord) == SelectSeq(ord, LAMBDA pid : ~ps[pid].isEliminated)

other_players(ps, ord, player_id) ==
    SelectSeq(candidates(ps, ord), LAMBDA pid : pid # player_id)

\* variant: the reduction without the clamp
ClampedDeadline_unclamped(timerEndTime, value) == timerEndTime - value * 1000

\* max(time.time() * 1000, timerEndTime - value * 1000)
ClampedDeadline(timerEndTime, value) == Max(now, timerEndTime - value * 1000)

\* the loop of the remove_time_all branch; it stops at the first target whose
\* timerEndTime is None (None - int raises TypeError), keeping earlier updates
RECURSIVE RemoveTimeAll(_, _, _, _)
RemoveTimeAll(ps, targets, value, affected) ==
    IF targets = << >>
    THEN [players |-> ps, affected |-> affected, raised |-> FALSE]
    ELSE LET target_id == Head(targets) IN
         IF ps[target_id].timerEndTime = NoTime
         THEN [players |-> ps, affected |-> affected, raised |-> TRUE]
         ELSE RemoveTimeAll(
                [ps EXCEPT ![target_id].timerEndTime =
                               ClampedDeadline(ps[target_id].timerEndTime, value)],
                Tail(targets), value, Append(affected, target_id))

Applied(ps, emits, raised) == [players |-> ps, emits |-> emits, raised |-> raised]

\* apply_reward on the roster (ps, ord); pick resolves random.choice
apply_reward(ps, ord, player_id, reward, is_debug, pick) ==
    LET effect_type == reward.effect
        value == reward.value
        others == other_players(ps, ord, player_id)
    IN
    IF effect_type = "add_time"
    THEN IF player_id \in DOMAIN ps
         THEN IF ps[player_id].timerEndTime = NoTime
              THEN Applied(ps, << >>, TRUE)
              ELSE Applied([ps EXCEPT ![player_id].timerEndTime = @ + value * 1000],
                           << [Msg("reward_applied", Broadcast) EXCEPT
                                 !.playerId = player_id, !.effect = "add_time",
                                 !.value = value] >>, FALSE)
         ELSE Applied(ps, << >>, FALSE)
    ELSE IF effect_type = "remove_time"
    THEN LET targets == IF is_debug /\ others = << >>
                           /\ player_id \in Range(candidates(ps, ord))
                        THEN << player_id >> ELSE others
         IN  IF targets # << >>
             THEN LET target_id == targets[((pick - 1) % Len(targets)) + 1] IN
                  IF ps[target_id].timerEndTime = NoTime
                  THEN Applied(ps, << >>, TRUE)
                  ELSE Applied([ps EXCEPT ![target_id].timerEndTime =
                                              ClampedDeadline(@, value)],
                               << [Msg("reward_applied", Broadcast) EXCEPT
                                     !.playerId = target_id, !.effect = "remove_time",
                                     !.value = value, !.fromPlayer = player_id] >>, FALSE)
             ELSE Applied(ps, << >>, FALSE)
    ELSE IF effect_type \in {"remove_time_targeted", "flashbang_targeted"}
    THEN LET targets == IF is_debug /\ others = << >> THEN << player_id >> ELSE others
         IN  IF targets # << >>
             THEN IF player_id \notin DOMAIN ps
                  THEN Applied(ps, << >>, TRUE)
                  ELSE LET ps1 == [ps EXCEPT ![player_id].pendingTargetedReward = reward] IN
                       IF \E i \in 1..Len(targets) : ps1[targets[i]].timerEndTime = NoTime
                       THEN Applied(ps1, << >>, TRUE)
                       ELSE Applied(ps1,
                                    << [Msg("target_selection_required",
                                            ps1[player_id].socket_id) EXCEPT
                                          !.effect = effect_type, !.value = value,
                                          !.targets = targets] >>, FALSE)
             ELSE Applied(ps, << >>, FALSE)
    ELSE IF effect_type = "remove_time_all"
    THEN LET targets == IF is_debug /\ others = << >> THEN << player_id >> ELSE others
             loop == RemoveTimeAll(ps, targets, value, << >>)
         IN  IF loop.raised
             THEN Applied(loop.players, << >>, TRUE)
             ELSE IF loop.affected # << >>
             THEN Applied(loop.players,
                          << [Msg("reward_applied", Broadcast) EXCEPT
                                !.effect = "remove_time_all", !.value = value,
                                !.fromPlayer = player_id, !.targets = loop.affected] >>,
                          FALSE)
             ELSE Applied(loop.players, << >>, FALSE)
    ELSE Applied(ps, << >>, FALSE)

(***************************************************************************)
(* utils.py: execute_code.  A run is what the submitted code makes the     *)
(* child process do: marker (the code holds the auto-complete comment),    *)
(* outcome of the child, and the per-case passed values it printed.        *)
(* Outcomes: "noprocess" (building the script or Popen raises, no child),  *)
(* "timeout", "nonzero" (exit code not 0), "badjson" (exit 0, the last     *)
(* line is not JSON), "badresults" (exit 0, the last line is JSON but not  *)
(* a list of objects, so all(...) raises), "exit0" (a list of results).    *)
(* error is "exception" where the code returns str(e).                     *)
(***************************************************************************)
All(cases) == \A i \in 1..Len(cases) : cases[i]

execute_code(run) ==
    IF run.marker
    THEN [passed |-> TRUE, testResults |-> << TRUE >>, error |-> "none"]
    ELSE IF run.outcome = "noprocess"
    THEN [passed |-> FALSE, testResults |-> << >>, error |-> "exception"]
    ELSE IF run.outcome = "timeout"
    THEN [passed |-> FALSE, testResults |-> << >>, error |-> "timeout"]
    ELSE IF run.outcome = "nonzero"
    THEN [passed |-> FALSE, testResults |-> << >>, error |-> "stderr"]
    ELSE IF run.outcome = "badjson"
    THEN [passed |-> FALSE, testResults |-> << >>, error |-> "parse"]
    ELSE IF run.outcome = "badresults"
    THEN [passed |-> FALSE, testResults |-> << >>, error |-> "exception"]
    ELSE [passed |-> All(run.cases), testResults |-> run.cases, error |-> "none"]

Run(marker, outcome, cases) == [marker |-> marker, outcome |-> outcome, cases |-> cases]

Runs ==
    { Run(TRUE, "exit0", << >>), Run(FALSE, "exit0", << TRUE, TRUE >>),
      Run(FALSE, "exit0", << TRUE, FALSE >>), Run(FALSE, "exit0", << >>),
      Run(FALSE, "nonzero", << >>), Run(FALSE, "timeout", << >>),
      Run(FALSE, "badjson", << >>), Run(FALSE, "badresults", << >>) }

(***************************************************************************)
(* utils.py: one call of execute_code, statement by statement, with the    *)
(* child process it starts.  The child is "none" before Popen, "running"   *)
(* from Popen until it ends, "exited" afterwards.                          *)
(***************************************************************************)
NoResult == [passed |-> FALSE, testResults |-> << >>, error |-> "unset"]

ExecIdle == [pc |-> "idle", run |-> Run(FALSE, "exit0", << >>), child |-> "none",
             result |-> NoResult]

CaseLists == UNION { [1..n -> BOOLEAN] : n \in 0..MaxCases }

ExecRuns == [marker : BOOLEAN,
             outcome : {"exit0", "nonzero", "badjson", "badresults", "timeout", "noprocess"},
             cases : CaseLists]

\* utils.py:32-37, the code holds the auto-complete comment: no process is started
ExecMarker ==
    /\ exec.pc = "called"
    /\ exec.run.marker
    /\ exec' = [exec EXCEPT !.pc = "returned", !.result = execute_code(exec.run)]
    /\ UNCHANGED roomVars

\* utils.py:39-104 and 140-145, building the script or Popen itself raises: the
\* except clause returns and no child process was started
ExecRaisesBeforeChild ==
    /\ exec.pc = "called"
    /\ ~exec.run.marker
    /\ exec.run.outcome = "noprocess"
    /\ exec' = [exec EXCEPT !.pc = "returned", !.result = execute_code(exec.run)]
    /\ UNCHANGED roomVars

\* utils.py:99-104, Popen starts the child process
ExecPopen ==
    /\ exec.pc = "called"
    /\ ~exec.run.marker
    /\ exec.run.outcome # "noprocess"
    /\ exec' = [exec EXCEPT !.pc = "communicate", !.child = "running"]
    /\ UNCHANGED roomVars

\* utils.py:107-131 and 140-145, the child ends within the 10 seconds and
\* communicate returns; the results are read, or reading them raises
ExecChildEnds ==
    /\ exec.pc = "communicate"
    /\ exec.run.outcome # "timeout"
    /\ exec' = [exec EXCEPT !.pc = "returned", !.child = "exited",
                            !.result = execute_code(exec.run)]
    /\ UNCHANGED roomVars

\* utils.py:107 and 133-138, communicate raises TimeoutExpired, which leaves the
\* child alone, and the except clause returns without kill() or wait()
ExecTimeoutExpired ==
    /\ exec.pc = "communicate"
    /\ exec.run.outcome = "timeout"
    /\ exec' = [exec EXCEPT !.pc = "returned", !.result = execute_code(exec.run)]
    /\ UNCHANGED roomVars

\* a child left running may still end by itself later
ExecChildEndsLate ==
    /\ exec.pc = "returned"
    /\ exec.child = "running"
    /\ exec' = [exec EXCEPT !.child = "exited"]
    /\ UNCHANGED roomVars

(***************************************************************************)
(* events.py                                                               *)
(***************************************************************************)
NewPlayer(player_id, username, socket_id) ==
    [id |-> player_id, username |-> username, socket_id |-> socket_id,
     timerEndTime |-> NoTime, isEliminated |-> FALSE, eliminatedAt |-> NoTime,
     currentProblem |-> None, cards |-> <<>>, pendingTargetedReward |-> NoReward]

InitRoom ==
    /\ now = 0
    /\ connected = {}
    /\ nextSid = 1
    /\ socket_to_player = [s \in 1..MaxSockets |-> None]
    /\ players = << >>
    /\ order = << >>
    /\ gameStatus = "lobby"
    /\ winner = None
    /\ nextPid = 1
    /\ nextCard = 1
    /\ cardReward = << >>
    /\ inflight = EmptyBag
    /\ orphans = << >>
    /\ solved = {}
    /\ ev = Ev("init", None, <<>>, FALSE)
    /\ nevents = 0

Init == InitRoom /\ exec = ExecIdle

\* every action handles one event; the handlers leave the step-by-step call alone
Count == nevents < MaxEvents /\ nevents' = nevents + 1 /\ UNCHANGED exec

\* the wall clock advances between handlers
Tick ==
    /\ Count
    /\ now < MaxTicks * TickMs
    /\ now' = now + TickMs
    /\ ev' = Ev("tick", None, <<>>, FALSE)
    /\ UNCHANGED <<connected, nextSid, socket_to_player, players, order, gameStatus,
                   winner, nextPid, nextCard, cardReward, inflight, orphans, solved>>

handle_connect ==
    /\ Count
    /\ nextSid <= MaxSockets
    /\ connected' = connected \cup {nextSid}
    /\ nextSid' = nextSid + 1
    /\ ev' = Ev("connect", nextSid, << Msg("connected", nextSid) >>, FALSE)
    /\ UNCHANGED <<now, socket_to_player, players, order, gameStatus, winner,
                   nextPid, nextCard, cardReward, inflight, orphans, solved>>

Referenced(pid) == \E r \in BagToSet(inflight) : r.player_id = pid

handle_disconnect(socket_id) ==
    /\ Count
    /\ socket_id \in connected
    /\ connected' = connected \ {socket_id}
    /\ IF socket_to_player[socket_id] # None
       THEN LET player_id == socket_to_player[socket_id]
                present == player_id \in DOMAIN players
                ps == IF present THEN DictDel(players, player_id) ELSE players
                ord == IF present THEN KeysDel(order, player_id) ELSE order
                left == IF present
                        THEN << [Msg("player_left", Broadcast) EXCEPT !.playerId = player_id] >>
                        ELSE << >>
                w == check_win_condition(ps, ord, gameStatus, winner)
            IN  /\ players' = ps
                /\ order' = ord
                /\ orphans' = IF present /\ Referenced(player_id)
                              THEN orphans @@ (player_id :> players[player_id])
                              ELSE orphans
                /\ socket_to_player' = [socket_to_player EXCEPT ![socket_id] = None]
                /\ gameStatus' = w.gameStatus
                /\ winner' = w.winner
                /\ ev' = Ev("disconnect", socket_id, left \o w.emits, FALSE)
       ELSE /\ ev' = Ev("disconnect", socket_id, << >>, FALSE)
            /\ UNCHANGED <<socket_to_player, players, order, orphans, gameStatus, winner>>
    /\ UNCHANGED <<now, nextSid, nextPid, nextCard, cardReward, inflight, solved>>

handle_join_room(socket_id, uname) ==
    /\ Count
    /\ socket_id \in connected
    /\ LET username == strip(uname) IN
       IF username = << >>
       THEN /\ ev' = Ev("join_room", socket_id,
                        << ErrorMsg("join_error", socket_id, "Username required") >>, FALSE)
            /\ UNCHANGED <<socket_to_player, players, order, nextPid>>
       ELSE /\ nextPid <= MaxJoins
            /\ LET player_id == nextPid IN
               /\ socket_to_player' = [socket_to_player EXCEPT ![socket_id] = player_id]
               /\ players' = players @@ (player_id :> NewPlayer(player_id, username, socket_id))
               /\ order' = Append(order, player_id)
               /\ nextPid' = nextPid + 1
               /\ ev' = Ev("join_room", socket_id,
                           << [Msg("player_joined", Broadcast) EXCEPT !.playerId = player_id],
                              Msg("game_state", socket_id) >>, FALSE)
    /\ UNCHANGED <<now, connected, nextSid, gameStatus, winner, nextCard, cardReward,
                   inflight, orphans, solved>>

\* mutant: every player is dealt the same HandSize cards
DealtHand_shared(k) == [i \in 1..HandSize |-> nextCard + (i - 1)]

\* the hand dealt to the k-th player of the key order: HandSize fresh cards
DealtHand(k) == [i \in 1..HandSize |-> nextCard + (k - 1) * HandSize + (i - 1)]

IndexOf(seq, x) == CHOOSE i \in 1..Len(seq) : seq[i] = x

\* variant: the host is taken to be the player that joined last
first_player_id_last(ord) == ord[Len(ord)]

\* list(game_state['players'].keys())[0]
first_player_id(ord) == ord[1]

handle_start_game(socket_id) ==
    /\ Count
    /\ socket_id \in connected
    /\ IF socket_to_player[socket_id] = None
       THEN /\ ev' = Ev("start_game", socket_id,
                        << ErrorMsg("error", socket_id, "Not connected") >>, FALSE)
            /\ UNCHANGED <<players, gameStatus, nextCard>>
       ELSE LET player_id == socket_to_player[socket_id] IN
            IF order = << >>
            THEN /\ ev' = Ev("start_game", socket_id,
                             << ErrorMsg("error", socket_id, "No players in game") >>, FALSE)
                 /\ UNCHANGED <<players, gameStatus, nextCard>>
            ELSE IF player_id # first_player_id(order)
                 THEN /\ ev' = Ev("start_game", socket_id,
                                  << ErrorMsg("error", socket_id, "Only host can start game") >>,
                                  FALSE)
                      /\ UNCHANGED <<players, gameStatus, nextCard>>
                 ELSE /\ nextCard + Len(order) * HandSize - 1 <= MaxCards
                      /\ gameStatus' = "playing"
                      /\ LET timer_end_time == now + StartSeconds * 1000 IN
                         players' = [pid \in DOMAIN players |->
                                       [players[pid] EXCEPT
                                          !.timerEndTime = timer_end_time,
                                          !.cards = DealtHand(IndexOf(order, pid))]]
                      /\ nextCard' = nextCard + Len(order) * HandSize
                      /\ ev' = Ev("start_game", socket_id,
                                  << Msg("game_started", Broadcast) >>, FALSE)
    /\ UNCHANGED <<now, connected, nextSid, socket_to_player, order, winner, nextPid,
                   cardReward, inflight, orphans, solved>>

\* mutant: any non-empty hand is taken to hold the card
HasCard_nonempty(cards, card_id) == Len(cards) > 0

HasCard(cards, card_id) == \E i \in 1..Len(cards) : cards[i] = card_id

handle_select_card(socket_id, card_id) ==
    /\ Count
    /\ socket_id \in connected
    /\ IF socket_to_player[socket_id] = None
       THEN /\ ev' = Ev("select_card", socket_id, << >>, FALSE)
            /\ UNCHANGED players
       ELSE LET player_id == socket_to_player[socket_id] IN
            IF player_id \notin DOMAIN players
            THEN /\ ev' = Ev("select_card", socket_id, << >>, FALSE)
                 /\ UNCHANGED players
            ELSE IF ~HasCard(players[player_id].cards, card_id)
            THEN /\ ev' = Ev("select_card", socket_id,
                             << ErrorMsg("error", socket_id, "Card not found in player hand") >>,
                             FALSE)
                 /\ UNCHANGED players
            ELSE /\ players' = [players EXCEPT ![player_id].currentProblem = card_id]
                 /\ ev' = Ev("select_card", socket_id,
                             << [Msg("card_selected", Broadcast) EXCEPT
                                   !.playerId = player_id, !.cardId = card_id] >>, FALSE)
    /\ UNCHANGED <<now, connected, nextSid, socket_to_player, order, gameStatus, winner,
                   nextPid, nextCard, cardReward, inflight, orphans, solved>>

\* handle_submit_solution up to the call of execute_code, where it suspends
SubmitSolution(socket_id, card_id) ==
    /\ Count
    /\ socket_id \in connected
    /\ IF socket_to_player[socket_id] = None
       THEN /\ ev' = Ev("submit_solution", socket_id, << >>, FALSE)
            /\ UNCHANGED inflight
       ELSE LET player_id == socket_to_player[socket_id] IN
            IF player_id \notin DOMAIN players
            THEN /\ ev' = Ev("submit_solution", socket_id, << >>, FALSE)
                 /\ UNCHANGED inflight
            ELSE LET player == players[player_id] IN
                 IF player.isEliminated
                 THEN /\ ev' = Ev("submit_solution", socket_id,
                                  << ErrorMsg("error", socket_id, "Player is eliminated") >>,
                                  FALSE)
                      /\ UNCHANGED inflight
                 ELSE IF ~HasCard(player.cards, card_id)
                 THEN /\ ev' = Ev("submit_solution", socket_id,
                                  << ErrorMsg("error", socket_id, "Card not found") >>, FALSE)
                      /\ UNCHANGED inflight
                 ELSE IF player.currentProblem # card_id
                 THEN /\ ev' = Ev("submit_solution", socket_id,
                                  << ErrorMsg("error", socket_id,
                                              "Card is not currently selected") >>, FALSE)
                      /\ UNCHANGED inflight
                 ELSE /\ BagCardinality(inflight) < MaxInflight
                      /\ inflight' = inflight (+) SetToBag({[socket_id |-> socket_id,
                                                            player_id |-> player_id,
                                                            card_id |-> card_id]})
                      /\ ev' = Ev("execute_code", socket_id, << >>, FALSE)
    /\ UNCHANGED <<now, connected, nextSid, socket_to_player, players, order, gameStatus,
                   winner, nextPid, nextCard, cardReward, orphans, solved>>

\* the player dict a suspended handler holds in its local variable `player`
Held(player_id) ==
    IF player_id \in DOMAIN players THEN players[player_id] ELSE orphans[player_id]

\* store back a dict: into the room when it is still there, else into orphans
\* for as long as a suspended handler of `rest` still holds it
PutRoom(ps, player_id, obj) ==
    IF player_id \in DOMAIN ps THEN [ps EXCEPT ![player_id] = obj] ELSE ps

PutOrphans(player_id, obj, rest) ==
    IF player_id \in DOMAIN players
    THEN orphans
    ELSE IF \E r \in BagToSet(rest) : r.player_id = player_id
    THEN [orphans EXCEPT ![player_id] = obj]
    ELSE DictDel(orphans, player_id)

\* a card's template is forgotten once no hand and no suspended handler holds the card
KeepRewards(cr, ps, orph, rest) ==
    [c \in { d \in DOMAIN cr :
               \/ \E r \in BagToSet(rest) : r.card_id = d
               \/ \E q \in DOMAIN ps : HasCard(ps[q].cards, d)
               \/ \E q \in DOMAIN orph : HasCard(orph[q].cards, d) } |-> cr[c]]

\* handle_submit_solution from the return of execute_code on.  template is the
\* draw random.choice made in generate_card for this card; the draw is
\* independent of the state, and the model resolves it when the card's reward
\* is first read, which is here.  pick is the draw of apply_reward.  A draw that
\* the path taken does not read is fixed to 1, unless the card's template was
\* already drawn by an earlier completion for the same card.
SubmitResume(r, run, template, pick) ==
    /\ Count
    /\ r \in BagToSet(inflight)
    /\ r.card_id \in DOMAIN cardReward => template = cardReward[r.card_id]
    /\ ~execute_code(run).passed /\ r.card_id \notin DOMAIN cardReward => template = 1
    /\ ~execute_code(run).passed \/ PROBLEM_TEMPLATES[template].effect # "remove_time"
         => pick = 1
    /\ LET result == execute_code(run)
           player_id == r.player_id
           card_id == r.card_id
           rest == inflight (-) SetToBag({r})
           player == Held(player_id)
       IN
       /\ inflight' = rest
       /\ IF result.passed
          THEN LET player1 == [player EXCEPT
                                 !.cards = SelectSeq(player.cards, LAMBDA c : c # card_id),
                                 !.currentProblem = None]
                   reward == PROBLEM_TEMPLATES[template]
                   a == apply_reward(PutRoom(players, player_id, player1), order,
                                     player_id, reward, FALSE, pick)
                   player2 == IF player_id \in DOMAIN players
                              THEN a.players[player_id] ELSE player1
               IN
               IF a.raised
               THEN /\ players' = a.players
                    /\ orphans' = PutOrphans(player_id, player2, rest)
                    /\ cardReward' = KeepRewards(cardReward @@ (card_id :> template),
                                                 players', orphans', rest)
                    /\ ev' = Ev("submit_solution", r.socket_id, a.emits, TRUE)
                    /\ UNCHANGED <<nextCard, solved>>
               ELSE /\ nextCard <= MaxCards
                    /\ LET new_card == nextCard
                           player3 == [player2 EXCEPT !.cards = Append(@, new_card)]
                       IN
                       /\ players' = PutRoom(a.players, player_id, player3)
                       /\ orphans' = PutOrphans(player_id, player3, rest)
                       /\ nextCard' = nextCard + 1
                       /\ cardReward' = KeepRewards(cardReward @@ (card_id :> template),
                                                    players', orphans', rest)
                       /\ solved' = solved \cup {card_id}
                       /\ ev' = Ev("submit_solution", r.socket_id,
                                   a.emits \o << [Msg("solution_passed", Broadcast) EXCEPT
                                                    !.playerId = player_id,
                                                    !.cardId = card_id] >>, FALSE)
          ELSE /\ orphans' = PutOrphans(player_id, player, rest)
               /\ ev' = Ev("submit_solution", r.socket_id,
                           << [Msg("solution_failed", Broadcast) EXCEPT
                                 !.playerId = player_id, !.cardId = card_id,
                                 !.message = result.error] >>, FALSE)
               /\ cardReward' = KeepRewards(cardReward, players, orphans', rest)
               /\ UNCHANGED <<players, nextCard, solved>>
    /\ \A q \in DOMAIN players' : players'[q].timerEndTime <= MaxDeadline
    /\ UNCHANGED <<now, connected, nextSid, socket_to_player, order, gameStatus, winner,
                   nextPid>>

\* mutant: the report of an already-eliminated player is handled again
handle_player_eliminated_again(socket_id) ==
    /\ Count
    /\ socket_id \in connected
    /\ IF socket_to_player[socket_id] = None
       THEN /\ ev' = Ev("player_eliminated", socket_id, << >>, FALSE)
            /\ UNCHANGED <<players, gameStatus, winner>>
       ELSE LET player_id == socket_to_player[socket_id] IN
            IF player_id \notin DOMAIN players
            THEN /\ ev' = Ev("player_eliminated", socket_id, << >>, TRUE)
                 /\ UNCHANGED <<players, gameStatus, winner>>
            ELSE LET ps == [players EXCEPT ![player_id].isEliminated = TRUE,
                                           ![player_id].eliminatedAt = now]
                     w == check_win_condition(ps, order, gameStatus, winner)
                 IN  /\ players' = ps
                     /\ gameStatus' = w.gameStatus
                     /\ winner' = w.winner
                     /\ ev' = Ev("player_eliminated", socket_id,
                                 << [Msg("player_eliminated", Broadcast) EXCEPT
                                       !.playerId = player_id] >> \o w.emits, FALSE)
    /\ UNCHANGED <<now, connected, nextSid, socket_to_player, order, nextPid, nextCard,
                   cardReward, inflight, orphans, solved>>

handle_player_eliminated(socket_id) ==
    /\ Count
    /\ socket_id \in connected
    /\ IF socket_to_player[socket_id] = None
       THEN /\ ev' = Ev("player_eliminated", socket_id, << >>, FALSE)
            /\ UNCHANGED <<players, gameStatus, winner>>
       ELSE LET player_id == socket_to_player[socket_id] IN
            IF player_id \notin DOMAIN players
            THEN /\ ev' = Ev("player_eliminated", socket_id, << >>, TRUE)
                 /\ UNCHANGED <<players, gameStatus, winner>>
            ELSE IF players[player_id].isEliminated
            THEN /\ ev' = Ev("player_eliminated", socket_id, << >>, FALSE)
                 /\ UNCHANGED <<players, gameStatus, winner>>
            ELSE LET ps == [players EXCEPT ![player_id].isEliminated = TRUE,
                                           ![player_id].eliminatedAt = now]
                     w == check_win_condition(ps, order, gameStatus, winner)
                 IN  /\ players' = ps
                     /\ gameStatus' = w.gameStatus
                     /\ winner' = w.winner
                     /\ ev' = Ev("player_eliminated", socket_id,
                                 << [Msg("player_eliminated", Broadcast) EXCEPT
                                       !.playerId = player_id] >> \o w.emits, FALSE)
    /\ UNCHANGED <<now, connected, nextSid, socket_to_player, order, nextPid, nextCard,
                   cardReward, inflight, orphans, solved>>

\* mutant: the actor is accepted as target
TargetError_self(ps, player_id, target_id) ==
    IF ps[player_id].pendingTargetedReward = NoReward THEN "No pending targeted reward"
    ELSE IF target_id \notin DOMAIN ps THEN "Invalid target player"
    ELSE IF ps[target_id].isEliminated THEN "Cannot target eliminated player"
    ELSE "none"

\* mutant: an eliminated target is accepted
TargetError_eliminated(ps, player_id, target_id) ==
    IF ps[player_id].pendingTargetedReward = NoReward THEN "No pending targeted reward"
    ELSE IF target_id \notin DOMAIN ps THEN "Invalid target player"
    ELSE IF target_id = player_id THEN "Cannot target yourself"
    ELSE "none"

\* the validation of handle_apply_targeted_debuff: the message of the first
\* check that fails, "none" when the target is accepted
TargetError(ps, player_id, target_id) ==
    IF ps[player_id].pendingTargetedReward = NoReward THEN "No pending targeted reward"
    ELSE IF target_id \notin DOMAIN ps THEN "Invalid target player"
    ELSE IF target_id = player_id THEN "Cannot target yourself"
    ELSE IF ps[target_id].isEliminated THEN "Cannot target eliminated player"
    ELSE "none"

handle_apply_targeted_debuff(socket_id, target_id) ==
    /\ Count
    /\ socket_id \in connected
    /\ IF socket_to_player[socket_id] = None
       THEN /\ ev' = Ev("apply_targeted_debuff", socket_id, << >>, FALSE)
            /\ UNCHANGED players
       ELSE LET player_id == socket_to_player[socket_id] IN
            IF player_id \notin DOMAIN players
            THEN /\ ev' = Ev("apply_targeted_debuff", socket_id, << >>, TRUE)
                 /\ UNCHANGED players
            ELSE LET player == players[player_id]
                     error == TargetError(players, player_id, target_id) IN
                 IF error # "none"
                 THEN /\ ev' = Ev("apply_targeted_debuff", socket_id,
                                  << ErrorMsg("error", socket_id, error) >>, FALSE)
                      /\ UNCHANGED players
                 ELSE LET reward == player.pendingTargetedReward IN
                      IF reward.effect = "remove_time_targeted"
                      THEN IF players[target_id].timerEndTime = NoTime
                           THEN /\ ev' = Ev("apply_targeted_debuff", socket_id, << >>, TRUE)
                                /\ UNCHANGED players
                           ELSE /\ players' =
                                     [players EXCEPT
                                        ![target_id].timerEndTime =
                                            ClampedDeadline(@, reward.value),
                                        ![player_id].pendingTargetedReward = NoReward]
                                /\ ev' = Ev("apply_targeted_debuff", socket_id,
                                            << [Msg("reward_applied", Broadcast) EXCEPT
                                                  !.playerId = target_id,
                                                  !.effect = "remove_time_targeted",
                                                  !.value = reward.value,
                                                  !.fromPlayer = player_id] >>, FALSE)
                      ELSE IF reward.effect = "flashbang_targeted"
                      THEN /\ players' = [players EXCEPT
                                            ![player_id].pendingTargetedReward = NoReward]
                           /\ ev' = Ev("apply_targeted_debuff", socket_id,
                                       << [Msg("flashbang_applied",
                                               players[target_id].socket_id) EXCEPT
                                             !.fromPlayer = player_id] >>, FALSE)
                      ELSE /\ players' = [players EXCEPT
                                            ![player_id].pendingTargetedReward = NoReward]
                           /\ ev' = Ev("apply_targeted_debuff", socket_id, << >>, FALSE)
    /\ UNCHANGED <<now, connected, nextSid, socket_to_player, order, gameStatus, winner,
                   nextPid, nextCard, cardReward, inflight, orphans, solved>>

\* the reward payloads a client sends with debug_trigger_reward; NoReward is a
\* missing or empty payload
DebugRewards ==
    { NoReward,
      [effect |-> "add_time", value |-> 300],
      [effect |-> "remove_time", value |-> 300],
      [effect |-> "remove_time_all", value |-> 300],
      [effect |-> "remove_time_targeted", value |-> 300],
      [effect |-> "flashbang_targeted", value |-> 1],
      [effect |-> "unknown", value |-> 1] }

handle_debug_trigger_reward(socket_id, reward, pick) ==
    /\ Count
    /\ socket_id \in connected
    /\ reward.effect # "remove_time" => pick = 1
    /\ IF socket_to_player[socket_id] = None
       THEN /\ ev' = Ev("debug_trigger_reward", socket_id, << >>, FALSE)
            /\ UNCHANGED players
       ELSE LET player_id == socket_to_player[socket_id] IN
            IF player_id \in DOMAIN players /\ reward # NoReward
            THEN LET a == apply_reward(players, order, player_id, reward, TRUE, pick) IN
                 /\ players' = a.players
                 /\ ev' = Ev("debug_trigger_reward", socket_id, a.emits, a.raised)
            ELSE /\ ev' = Ev("debug_trigger_reward", socket_id, << >>, FALSE)
                 /\ UNCHANGED players
    /\ \A q \in DOMAIN players' : players'[q].timerEndTime <= MaxDeadline
    /\ UNCHANGED <<now, connected, nextSid, socket_to_player, order, gameStatus, winner,
                   nextPid, nextCard, cardReward, inflight, orphans, solved>>

Sockets == 1..MaxSockets

\* the cardId payloads tried for a connection: an id nobody holds, the first
\* card of its player's hand, and the card its player has selected
CardInputs(socket_id) ==
    LET player_id == socket_to_player[socket_id] IN
    IF player_id \in DOMAIN players
    THEN {None, players[player_id].currentProblem}
         \cup (IF players[player_id].cards # << >>
               THEN {players[player_id].cards[1]} ELSE {})
    ELSE {None}

PlayerIds == 0..MaxJoins

Next ==
    \/ Tick
    \/ handle_connect
    \/ \E s \in Sockets : handle_disconnect(s)
    \/ \E s \in Sockets, u \in Usernames : handle_join_room(s, u)
    \/ \E s \in Sockets : handle_start_game(s)
    \/ \E s \in Sockets : \E c \in CardInputs(s) : handle_select_card(s, c)
    \/ \E s \in Sockets : \E c \in CardInputs(s) : SubmitSolution(s, c)
    \/ \E r \in BagToSet(inflight), run \in Runs,
          t \in 1..Len(PROBLEM_TEMPLATES), k \in 1..MaxJoins :
          SubmitResume(r, run, t, k)
    \/ \E s \in Sockets : handle_player_eliminated(s)
    \/ \E s \in Sockets, t \in PlayerIds : handle_apply_targeted_debuff(s, t)
    \/ \E s \in Sockets, rw \in DebugRewards, k \in 1..MaxJoins :
          handle_debug_trigger_reward(s, rw, k)

Spec == Init /\ [][Next]_vars

(***************************************************************************)
(* Specification of execute_code alone: one call for every run, in a room  *)
(* that stays idle.                                                        *)
(***************************************************************************)
InitExec ==
    /\ InitRoom
    /\ \E run \in ExecRuns :
          exec = [pc |-> "called", run |-> run, child |-> "none", result |-> NoResult]

NextExec ==
    \/ ExecMarker
    \/ ExecRaisesBeforeChild
    \/ ExecPopen
    \/ ExecChildEnds
    \/ ExecTimeoutExpired
    \/ ExecChildEndsLate

SpecExec == InitExec /\ [][NextExec]_vars

(***************************************************************************)
(* Vocabulary of the properties.                                           *)
(***************************************************************************)
\* a handler ran in this step
Handled(handler) == nevents' = nevents + 1 /\ ev'.handler = handler

\* the step ran check_win_condition: a disconnect of a connection that had
\* joined, or an elimination report that was accepted
EvaluatorRan ==
    \/ Handled("disconnect") /\ socket_to_player[ev'.sid] # None
    \/ Handled("player_eliminated") /\ ev'.emits # << >>

Emitted(e, event) == \E i \in 1..Len(e.emits) : e.emits[i].event = event

Active == active_players(players, order)

\* the players a remove-time effect reports as hit
RemoveTargets(m) ==
    IF m.event = "reward_applied" /\ m.effect \in {"remove_time", "remove_time_targeted"}
    THEN {m.playerId}
    ELSE IF m.event = "reward_applied" /\ m.effect = "remove_time_all"
    THEN Range(m.targets)
    ELSE {}

SameTimersAndHands ==
    /\ DOMAIN players' = DOMAIN players
    /\ \A p \in DOMAIN players :
          /\ players'[p].timerEndTime = players[p].timerEndTime
          /\ players'[p].cards = players[p].cards

(***************************************************************************)
(* C1.  As stated: in every reachable state, if exactly one player of the  *)
(* roster is not eliminated then the phase is 'ended' and the winner is    *)
(* that player.                                                            *)
(***************************************************************************)
C1_SoleSurvivorAlwaysWinner ==
    Len(Active) = 1 => gameStatus = "ended" /\ winner = Active[1]

\* C1 (amended): right after the win-condition evaluator has run (after a
\* disconnect of a joined connection or an accepted elimination report), if
\* exactly one player of the roster is not eliminated then the phase is
\* 'ended', the winner is that player and game_ended names that player.
C1_EvaluatorSetsWinner ==
    [][EvaluatorRan /\ Len(active_players(players', order')) = 1
         => /\ gameStatus' = "ended"
            /\ winner' = active_players(players', order')[1]
            /\ \E i \in 1..Len(ev'.emits) :
                  /\ ev'.emits[i].event = "game_ended"
                  /\ ev'.emits[i].playerId = winner']_vars

\* two players are in the roster, one was eliminated and the evaluator made
\* the second one, who is not the first of the roster, the winner
C1_Witness ==
    /\ ev.handler = "player_eliminated"
    /\ Emitted(ev, "game_ended")
    /\ Len(order) = 2
    /\ Active = << order[2] >>
    /\ gameStatus = "ended"
    /\ winner = order[2]

(***************************************************************************)
(* C2.  Once the phase is 'ended', a later run of the win-condition        *)
(* evaluator changes neither phase nor winner and emits no game_ended.     *)
(***************************************************************************)
C2_EvaluatorIdempotent ==
    [][gameStatus = "ended" /\ EvaluatorRan
         => /\ gameStatus' = gameStatus
            /\ winner' = winner
            /\ ~Emitted(ev', "game_ended")]_vars

(***************************************************************************)
(* C3.  'ended' is terminal, and a start request while the phase is        *)
(* 'playing' or 'ended' changes neither the phase nor any timer deadline   *)
(* nor any hand.                                                           *)
(***************************************************************************)
C3_NoRestart ==
    [][/\ gameStatus = "ended" => gameStatus' = "ended"
       /\ Handled("start_game") /\ gameStatus \in {"playing", "ended"}
            => gameStatus' = gameStatus /\ SameTimersAndHands]_vars

(***************************************************************************)
(* C4.  The phase never goes from 'lobby' directly to 'ended', and no      *)
(* winner is set while the phase is 'lobby'.                               *)
(***************************************************************************)
C4_NoLobbyToEnded ==
    [][gameStatus = "lobby" => gameStatus' # "ended" /\ winner' = winner]_vars

(***************************************************************************)
(* C5.  Only the host starts the game: a start request from a connection   *)
(* that has not joined, or whose player is not the first of the roster,    *)
(* gets an error on that connection and changes neither the phase nor any  *)
(* timer deadline nor any hand; and the phase becomes 'playing' only by a  *)
(* start request of the first player of the roster.                        *)
(***************************************************************************)
C5_OnlyHostStarts ==
    [][/\ Handled("start_game")
          /\ (\/ socket_to_player[ev'.sid] = None
              \/ order = << >>
              \/ socket_to_player[ev'.sid] # order[1])
            => /\ \E i \in 1..Len(ev'.emits) :
                     ev'.emits[i].event = "error" /\ ev'.emits[i].to = ev'.sid
               /\ gameStatus' = gameStatus
               /\ SameTimersAndHands
       /\ gameStatus # "playing" /\ gameStatus' = "playing"
            => /\ Handled("start_game")
               /\ order # << >>
               /\ socket_to_player[ev'.sid] = order[1]]_vars

\* a joined player that is not the host asked to start and was refused
C5_Witness ==
    /\ ev.handler = "start_game"
    /\ \E i \in 1..Len(ev.emits) : ev.emits[i].message = "Only host can start game"
    /\ Len(order) >= 2
    /\ socket_to_player[ev.sid] \in Range(order)
    /\ socket_to_player[ev.sid] # order[1]
    /\ gameStatus = "lobby"

(***************************************************************************)
(* C6.  Clamp invariant: right after a remove-time effect (random, all or  *)
(* targeted) applied at instant now, every target it hit has a deadline    *)
(* >= now, and no step of a reward handler lowers a deadline below now;    *)
(* add_time adds exactly value seconds, with no upper clamp.               *)
(***************************************************************************)
C6_ClampInvariant ==
    [][nevents' = nevents + 1
         => /\ \A i \in 1..Len(ev'.emits) :
                  \A t \in RemoveTargets(ev'.emits[i]) :
                     players'[t].timerEndTime >= now'
            /\ \A p \in DOMAIN players \cap DOMAIN players' :
                  players'[p].timerEndTime < players[p].timerEndTime
                  /\ ev'.handler \in {"debug_trigger_reward", "submit_solution",
                                      "apply_targeted_debuff"}
                    => players'[p].timerEndTime >= now'
            /\ \A i \in 1..Len(ev'.emits) :
                  ev'.emits[i].event = "reward_applied" /\ ev'.emits[i].effect = "add_time"
                    => players'[ev'.emits[i].playerId].timerEndTime
                         = players[ev'.emits[i].playerId].timerEndTime
                           + ev'.emits[i].value * 1000]_vars

\* a remove-time effect larger than the target's remaining time was applied
\* after the clock had advanced, and the target's deadline is the instant of
\* the effect
C6_Witness ==
    /\ now > 0
    /\ \E i \in 1..Len(ev.emits) :
          \E t \in RemoveTargets(ev.emits[i]) :
             /\ players[t].timerEndTime = now
             /\ ev.emits[i].value * 1000 > StartSeconds * 1000 - now

(***************************************************************************)
(* C7.  Every targeted-reward resolution request made by a player that     *)
(* holds a pending targeted reward leaves that player with no pending      *)
(* reward, whatever the target.                                            *)
(***************************************************************************)
C7_ResolutionAlwaysClears ==
    [][/\ Handled("apply_targeted_debuff")
       /\ socket_to_player[ev'.sid] \in DOMAIN players
       /\ players[socket_to_player[ev'.sid]].pendingTargetedReward # NoReward
         => players'[socket_to_player[ev'.sid]].pendingTargetedReward = NoReward]_vars

(***************************************************************************)
(* C8.  No remove_time (random), remove_time_all or                        *)
(* target_selection_required names an eliminated player, and it names the  *)
(* actor only when the request is a debug one and no other player is a     *)
(* candidate.                                                              *)
(***************************************************************************)
Named(m) ==
    IF m.event = "reward_applied" /\ m.effect = "remove_time" THEN {m.playerId}
    ELSE IF m.event = "reward_applied" /\ m.effect = "remove_time_all" THEN Range(m.targets)
    ELSE IF m.event = "target_selection_required" THEN Range(m.targets)
    ELSE {}

C8_TargetsAreLiveOthers ==
    [][nevents' = nevents + 1
         => \A i \in 1..Len(ev'.emits) :
               \A t \in Named(ev'.emits[i]) :
                  /\ t \in DOMAIN players
                  /\ ~players[t].isEliminated
                  /\ t = socket_to_player[ev'.sid]
                       => /\ ev'.handler = "debug_trigger_reward"
                          /\ other_players(players, order, t) = << >>]_vars

(***************************************************************************)
(* C9.  In every reachable state each player's hand holds at most 5 cards. *)
(***************************************************************************)
C9_HandAtMostFive ==
    \A p \in DOMAIN players : Len(players[p].cards) <= HandSize

(***************************************************************************)
(* C10.  A card is single-use: solution_passed is produced at most once    *)
(* for a card id over the whole run.                                       *)
(***************************************************************************)
C10_CardSolvedOnce ==
    [][nevents' = nevents + 1
         => \A i \in 1..Len(ev'.emits) :
               ev'.emits[i].event = "solution_passed"
                 => ev'.emits[i].cardId \notin solved]_vars


(***************************************************************************)
(* C11.  A submission handler that resumes after grading to find its       *)
(* player gone from the roster, or its card no longer in that player's     *)
(* hand or no longer selected, is a silent no-op: no deadline, pending     *)
(* reward or hand changes, no card is dealt, nothing is emitted and no     *)
(* exception is raised.                                                    *)
(***************************************************************************)
\* the suspended handler r resumed in this step
Resumed(r) ==
    /\ Handled("submit_solution")
    /\ r \in BagToSet(inflight)
    /\ CopiesIn(r, inflight') < CopiesIn(r, inflight)

StaleSubmission(r) ==
    \/ r.player_id \notin DOMAIN players
    \/ ~HasCard(players[r.player_id].cards, r.card_id)
    \/ players[r.player_id].currentProblem # r.card_id

C11_StaleResumeIsNoOp ==
    [][\A r \in BagToSet(inflight) :
          Resumed(r) /\ StaleSubmission(r)
            => /\ players' = players
               /\ nextCard' = nextCard
               /\ ev'.emits = << >>
               /\ ~ev'.raised]_vars

(***************************************************************************)
(* C12.  After the disconnect of a connection has been handled, the roster *)
(* holds no player whose owning connection is that connection.             *)
(***************************************************************************)
C12_DisconnectRemovesPlayers ==
    [][Handled("disconnect")
         => \A p \in DOMAIN players' : players'[p].socket_id # ev'.sid]_vars

(***************************************************************************)
(* C13.  A room with zero players is deleted: a player who joins a room    *)
(* whose roster is empty finds phase 'lobby' and no winner.                *)
(***************************************************************************)
C13_EmptyRoomIsFresh ==
    [][Handled("join_room") /\ order = << >> /\ order' # << >>
         => gameStatus' = "lobby" /\ winner' = None]_vars

(***************************************************************************)
(* C14.  Selecting a card the player does not hold, and submitting a card  *)
(* the player does not hold, a card that is not the selected one, or any   *)
(* card while eliminated, are each rejected: one error goes to the acting  *)
(* connection only, the state is unchanged and no grading run is started.  *)
(***************************************************************************)
Rejected(socket_id) ==
    /\ Len(ev'.emits) = 1
    /\ ev'.emits[1].event = "error"
    /\ ev'.emits[1].to = socket_id
    /\ ~ev'.raised
    /\ UNCHANGED <<now, connected, nextSid, socket_to_player, players, order, gameStatus,
                   winner, nextPid, nextCard, cardReward, inflight, orphans, solved>>

C14_InvalidCardRequestsRejected ==
    [][Handled("select_card") \/ Handled("submit_solution") \/ Handled("execute_code")
         => LET s == ev'.sid
                player_id == socket_to_player[s]
            IN  player_id # None /\ player_id \in DOMAIN players
                  => \A c \in CardInputs(s) :
                        /\ c \notin Range(players[player_id].cards)
                             /\ handle_select_card(s, c)
                           => Rejected(s)
                        /\ (\/ c \notin Range(players[player_id].cards)
                            \/ players[player_id].currentProblem # c
                            \/ players[player_id].isEliminated)
                             /\ SubmitSolution(s, c)
                           => Rejected(s)]_vars

C14_Witness ==
    /\ ev.handler = "submit_solution"
    /\ ev.emits = << ErrorMsg("error", ev.sid, "Card is not currently selected") >>
    /\ socket_to_player[ev.sid] \in DOMAIN players
    /\ players[socket_to_player[ev.sid]].cards # << >>

(***************************************************************************)
(* C15.  The overall passed of a grading run is the conjunction of its     *)
(* per-case results, and a run with zero per-case results is not passed.   *)
(***************************************************************************)
C15_PassedIsNonEmptyConjunction ==
    exec.pc = "returned"
      => exec.result.passed
           = (exec.result.testResults # << >> /\ All(exec.result.testResults))

(***************************************************************************)
(* C16.  When the child exceeds the timeout, execute_code returns          *)
(* passed = false with the timeout error and no per-case results, and the  *)
(* child process is no longer running once it has returned.                *)
(***************************************************************************)
C16_TimeoutKillsChild ==
    exec.pc = "returned" /\ ~exec.run.marker /\ exec.run.outcome = "timeout"
      => /\ exec.result = [passed |-> FALSE, testResults |-> << >>, error |-> "timeout"]
         /\ exec.child # "running"

(***************************************************************************)
(* C17.  When the win-condition evaluator has run on a non-empty roster    *)
(* that has no active player, the phase is 'ended', the room's winner is   *)
(* null and a game_ended with a null winner has been broadcast; an earlier *)
(* winner who has left does not stay recorded.                             *)
(***************************************************************************)
C17_NoActiveNoWinner ==
    [][EvaluatorRan /\ order' # << >> /\ active_players(players', order') = << >>
         => /\ gameStatus' = "ended"
            /\ winner' = None
            /\ \E i \in 1..Len(ev'.emits) :
                  /\ ev'.emits[i].event = "game_ended"
                  /\ ev'.emits[i].playerId = None]_vars

(***************************************************************************)
(* C18.  A resolution by an actor who holds no pending targeted reward, or *)
(* whose target is not a non-eliminated player of the room, changes no     *)
(* player's deadline and emits neither reward_applied nor                  *)
(* flashbang_applied.                                                      *)
(***************************************************************************)
NoPending(socket_id) ==
    \/ socket_to_player[socket_id] = None
    \/ socket_to_player[socket_id] \notin DOMAIN players
    \/ players[socket_to_player[socket_id]].pendingTargetedReward = NoReward

C18_FailedResolutionHasNoEffect ==
    [][Handled("apply_targeted_debuff")
         => \A t \in PlayerIds :
          /\ \/ NoPending(ev'.sid)
             \/ t \notin DOMAIN players
             \/ players[t].isEliminated
          /\ handle_apply_targeted_debuff(ev'.sid, t)
          => /\ DOMAIN players' = DOMAIN players
             /\ \A p \in DOMAIN players :
                   players'[p].timerEndTime = players[p].timerEndTime
             /\ ~Emitted(ev', "reward_applied")
             /\ ~Emitted(ev', "flashbang_applied")]_vars

\* a player with a running timer was eliminated and then chosen as target
C18_Witness ==
    /\ ev.handler = "apply_targeted_debuff"
    /\ ev.emits = << ErrorMsg("error", ev.sid, "Cannot target eliminated player") >>
    /\ \E t \in DOMAIN players : players[t].isEliminated /\ players[t].timerEndTime # NoTime

(***************************************************************************)
(* C19.  Phase 1 of a targeted reward (apply_reward with                   *)
(* remove_time_targeted or flashbang_targeted, from a solved card or from  *)
(* the debug trigger) changes no player's deadline: it touches no pending  *)
(* reward but the actor's, emits no reward_applied or flashbang_applied,   *)
(* and a target_selection_required goes to the actor's connection alone,   *)
(* with the reward stored as the actor's pending reward.  A resolution     *)
(* that changes a deadline or emits its effect never has the actor as its  *)
(* target.                                                                 *)
(***************************************************************************)
Targeted(reward) == reward.effect \in {"remove_time_targeted", "flashbang_targeted"}

Phase1Frame(actor, reward) ==
    /\ DOMAIN players' = DOMAIN players
    /\ \A p \in DOMAIN players :
          /\ players'[p].timerEndTime = players[p].timerEndTime
          /\ p # actor
               => players'[p].pendingTargetedReward = players[p].pendingTargetedReward
    /\ \A i \in 1..Len(ev'.emits) :
          /\ ev'.emits[i].event \notin {"reward_applied", "flashbang_applied"}
          /\ ev'.emits[i].event = "target_selection_required"
               => /\ actor \in DOMAIN players
                  /\ ev'.emits[i].to = players[actor].socket_id
                  /\ players'[actor].pendingTargetedReward = reward

ResolutionTookEffect ==
    \/ \E p \in DOMAIN players :
          p \in DOMAIN players' /\ players'[p].timerEndTime # players[p].timerEndTime
    \/ Emitted(ev', "reward_applied")
    \/ Emitted(ev', "flashbang_applied")

C19_TargetedRewardIsTwoPhase ==
    [][/\ Handled("debug_trigger_reward")
          => \A rw \in DebugRewards :
                Targeted(rw)
                  => \A k \in 1..MaxJoins :
                        handle_debug_trigger_reward(ev'.sid, rw, k)
                          => Phase1Frame(socket_to_player[ev'.sid], rw)
       /\ Handled("submit_solution")
          => \A r \in BagToSet(inflight) :
                Resumed(r)
                  => \A t \in 1..Len(PROBLEM_TEMPLATES) :
                        Targeted(PROBLEM_TEMPLATES[t])
                          => \A run \in Runs : \A k \in 1..MaxJoins :
                                execute_code(run).passed /\ SubmitResume(r, run, t, k)
                                  => Phase1Frame(r.player_id, PROBLEM_TEMPLATES[t])
       /\ Handled("apply_targeted_debuff")
          => \A t \in PlayerIds :
                ResolutionTookEffect /\ handle_apply_targeted_debuff(ev'.sid, t)
                  => t # socket_to_player[ev'.sid]]_vars

\* a solved card with a targeted reward has asked its solver for a target
C19_Witness ==
    /\ ev.handler = "submit_solution"
    /\ Emitted(ev, "target_selection_required")
    /\ \E p \in DOMAIN players :
          /\ Targeted(players[p].pendingTargetedReward)
          /\ players[p].socket_id = ev.sid
    /\ \E p \in DOMAIN players : players[p].timerEndTime # NoTime

(***************************************************************************)
(* C20.  When the host's start request is accepted at instant now, the     *)
(* phase is 'playing', every player of the roster has the deadline         *)
(* now + 300 s (in milliseconds), and every player of the roster holds     *)
(* exactly 5 cards, no card id occurring twice in the room.                *)
(***************************************************************************)
StartAccepted == Handled("start_game") /\ Emitted(ev', "game_started")

C20_StartSetsTimersAndHands ==
    [][StartAccepted
         => /\ gameStatus' = "playing"
            /\ DOMAIN players' = Range(order')
            /\ \A p \in DOMAIN players' :
                  /\ players'[p].timerEndTime = now + 300 * 1000
                  /\ Len(players'[p].cards) = 5
            /\ \A p, q \in DOMAIN players' : \A i, j \in 1..5 :
                  players'[p].cards[i] = players'[q].cards[j] => p = q /\ i = j]_vars

\* a room of two players has just been started
C20_Witness ==
    /\ ev.handler = "start_game"
    /\ Emitted(ev, "game_started")
    /\ Len(order) >= 2
    /\ gameStatus = "playing"
    /\ \A p \in DOMAIN players : Len(players[p].cards) = 5

(***************************************************************************)
(* C21.  apply_reward with add_time for an actor that is in the roster     *)
(* adds exactly value seconds to the actor's deadline, raises nothing and  *)
(* leaves every other deadline, every elimination flag, the phase and the  *)
(* winner unchanged; for an actor that is not in the roster it changes no  *)
(* player and broadcasts no reward.                                        *)
(***************************************************************************)
AddTimeFrame(actor, value) ==
    /\ gameStatus' = gameStatus
    /\ winner' = winner
    /\ DOMAIN players' = DOMAIN players
    /\ \A p \in DOMAIN players :
          /\ players'[p].isEliminated = players[p].isEliminated
          /\ p # actor => players'[p].timerEndTime = players[p].timerEndTime
    /\ IF actor \in DOMAIN players
       THEN /\ ~ev'.raised
            /\ players[actor].timerEndTime # NoTime
            /\ players'[actor].timerEndTime = players[actor].timerEndTime + value * 1000
       ELSE /\ players' = players
            /\ ~Emitted(ev', "reward_applied")

C21_AddTimeOnlyActor ==
    [][/\ Handled("debug_trigger_reward")
          => \A rw \in DebugRewards :
                rw.effect = "add_time"
                  => \A k \in 1..MaxJoins :
                        /\ socket_to_player[ev'.sid] # None
                        /\ handle_debug_trigger_reward(ev'.sid, rw, k)
                        => AddTimeFrame(socket_to_player[ev'.sid], rw.value)
       /\ Handled("submit_solution")
          => \A r \in BagToSet(inflight) :
                Resumed(r)
                  => \A t \in 1..Len(PROBLEM_TEMPLATES) :
                        PROBLEM_TEMPLATES[t].effect = "add_time"
                          => \A run \in Runs : \A k \in 1..MaxJoins :
                                execute_code(run).passed /\ SubmitResume(r, run, t, k)
                                  => AddTimeFrame(r.player_id,
                                                  PROBLEM_TEMPLATES[t].value)]_vars

(***************************************************************************)
(* C22.  A room has at most one winner over its lifetime: once the winner  *)
(* is a player id, no later event makes it a different player id.          *)
(***************************************************************************)
C22_WinnerNeverReplaced ==
    [][winner # None /\ winner' # None => winner' = winner]_vars

(***************************************************************************)
(* C23.  Whenever the phase is 'playing', every player of the roster has   *)
(* a deadline that is not null, players who joined after the start         *)
(* included.                                                               *)
(***************************************************************************)
C23_PlayingHasDeadlines ==
    gameStatus = "playing" => \A p \in DOMAIN players : players[p].timerEndTime # NoTime

(***************************************************************************)
(* C24.  An eliminated player cannot affect the other players' timers: a   *)
(* request handled for the connection of a player whose elimination flag   *)
(* is set reduces no other player's deadline and sends no flashbang.       *)
(***************************************************************************)
\* the step handled a request of connection ev'.sid (not the resumption of a
\* submission sent earlier) and that connection's player was eliminated
RequestByEliminated ==
    /\ nevents' = nevents + 1
    /\ ev'.sid \in connected
    /\ BagCardinality(inflight') >= BagCardinality(inflight)
    /\ socket_to_player[ev'.sid] \in DOMAIN players
    /\ players[socket_to_player[ev'.sid]].isEliminated

C24_EliminatedCannotAttack ==
    [][RequestByEliminated
         => /\ \A q \in DOMAIN players \cap DOMAIN players' :
                  q # socket_to_player[ev'.sid]
                    => players'[q].timerEndTime >= players[q].timerEndTime
            /\ ~Emitted(ev', "flashbang_applied")]_vars

(***************************************************************************)
(* C25.  A remove-time effect never increases a deadline: after every      *)
(* application of remove_time, remove_time_all or remove_time_targeted     *)
(* each affected player's deadline is at most what it was before, also     *)
(* when that deadline had already passed.                                  *)
(***************************************************************************)
C25_RemoveTimeNeverAdds ==
    [][nevents' = nevents + 1
         => \A i \in 1..Len(ev'.emits) : \A t \in RemoveTargets(ev'.emits[i]) :
               t \in DOMAIN players /\ t \in DOMAIN players'
                 => players'[t].timerEndTime <= players[t].timerEndTime]_vars

(***************************************************************************)
(* C26.  In every reachable state each player's selected card id is none   *)
(* or the id of a card in that player's hand.                              *)
(***************************************************************************)
C26_SelectedCardIsHeld ==
    \A p \in DOMAIN players :
       \/ players[p].currentProblem = None
       \/ players[p].currentProblem \in Range(players[p].cards)

(***************************************************************************)
(* C28.  Once the phase is 'ended' the game is frozen: no later event      *)
(* changes the deadline, the hand or the pending targeted reward of a      *)
(* player of the roster.                                                   *)
(***************************************************************************)
C28_EndedIsFrozen ==
    [][gameStatus = "ended"
         => \A p \in DOMAIN players \cap DOMAIN players' :
               /\ players'[p].timerEndTime = players[p].timerEndTime
               /\ players'[p].cards = players[p].cards
               /\ players'[p].pendingTargetedReward
                    = players[p].pendingTargetedReward]_vars

(***************************************************************************)
(* C27.  A player's elimination flag is monotone: once set it is never     *)
(* unset while the player is in the roster, whatever event follows; and    *)
(* an elimination report from a player who is already eliminated changes   *)
(* neither its elimination timestamp nor any other state and broadcasts    *)
(* nothing.                                                                *)
(***************************************************************************)
RepeatedReport ==
    /\ Handled("player_eliminated")
    /\ socket_to_player[ev'.sid] \in DOMAIN players
    /\ players[socket_to_player[ev'.sid]].isEliminated

C27_EliminationIsMonotone ==
    [][/\ \A p \in DOMAIN players \cap DOMAIN players' :
             players[p].isEliminated => players'[p].isEliminated
       /\ RepeatedReport
            => /\ ev'.emits = << >>
               /\ ~ev'.raised
               /\ UNCHANGED <<now, connected, nextSid, socket_to_player, players, order,
                              gameStatus, winner, nextPid, nextCard, cardReward, inflight,
                              orphans, solved>>]_vars

\* an eliminated player whose timestamp is older than the clock has reported again
C27_Witness ==
    /\ ev.handler = "player_eliminated"
    /\ ev.emits = << >>
    /\ socket_to_player[ev.sid] \in DOMAIN players
    /\ players[socket_to_player[ev.sid]].isEliminated
    /\ players[socket_to_player[ev.sid]].eliminatedAt < now

====
